---------------------------- MODULE Spec2Model ----------------------------
(* prep (cmd/prep/prep.go): static extraction of SQL query text.          *)
(* The run builds the constant table from the package's definitions,       *)
(* walks every file's syntax tree with the queryFinder visitor, and hands  *)
(* the sorted, deduplicated query list to the code generator.              *)
(*                                                                         *)
(* Text is a sequence of characters; a character is written by name:       *)
(*   "DQ" the double quote, "BQ" the backtick, "BS" the backslash,         *)
(*   "a" and "b" themselves.                                               *)
EXTENDS Naturals, Sequences, FiniteSets, TLC

(***************************************************************************)
(* Bounds of the model                                                     *)
(***************************************************************************)
MaxDefs == 3

MaxStmts == 2

(***************************************************************************)
(* Text: byte order, quoting and unquoting                                 *)
(***************************************************************************)
EmptyText == <<>>

\* the byte value of a character (sort.Strings compares bytewise)
Code(c) ==
  CASE c = "DQ" -> 34
    [] c = "BS" -> 92
    [] c = "BQ" -> 96
    [] c = "a" -> 97
    [] c = "b" -> 98

RECURSIVE TextLess(_, _)
TextLess(s, t) ==
  IF Len(s) = 0 THEN Len(t) > 0
  ELSE IF Len(t) = 0 THEN FALSE
  ELSE IF Head(s) = Head(t) THEN TextLess(Tail(s), Tail(t))
  ELSE Code(Head(s)) < Code(Head(t))

RECURSIVE EscapeText(_)
EscapeText(s) ==
  IF Len(s) = 0 THEN <<>>
  ELSE IF Head(s) \in {"DQ", "BS"} THEN <<"BS", Head(s)>> \o EscapeText(Tail(s))
  ELSE <<Head(s)>> \o EscapeText(Tail(s))

RECURSIVE UnescapeText(_)
UnescapeText(s) ==
  IF Len(s) = 0 THEN <<>>
  ELSE IF Head(s) = "BS" /\ Len(s) >= 2
       THEN <<s[2]>> \o UnescapeText(Tail(Tail(s)))
  ELSE <<Head(s)>> \o UnescapeText(Tail(s))

\* the string a literal token denotes: a raw literal (backticks) denotes its
\* body as written, an interpreted one (double quotes) its body unescaped
StringVal(tok) ==
  IF Head(tok) = "BQ" THEN SubSeq(tok, 2, Len(tok) - 1)
  ELSE UnescapeText(SubSeq(tok, 2, Len(tok) - 1))

\* constant.Value.ExactString of a string constant: the double-quoted form
ExactString(val) == <<"DQ">> \o EscapeText(val) \o <<"DQ">>

(***************************************************************************)
(* Syntax tree nodes                                                       *)
(***************************************************************************)
Ident(n, o) == [kind |-> "Ident", name |-> n, obj |-> o]

BasicLit(v) == [kind |-> "BasicLit", value |-> v]

SelectorExpr(x, s) == [kind |-> "SelectorExpr", x |-> x, sel |-> Ident(s, "func")]

CallExpr(f, a) == [kind |-> "CallExpr", fun |-> f, args |-> a]

BinaryExpr(x, y) == [kind |-> "BinaryExpr", x |-> x, y |-> y]

ExprStmt(x) == [kind |-> "ExprStmt", x |-> x]

File(stmts) == [kind |-> "File", name |-> Ident("pkg", "none"), decls |-> stmts]

NilNode == [kind |-> "nil"]

\* the children ast.Walk descends into, in its order
Children(n) ==
  CASE n.kind = "File" -> <<n.name>> \o n.decls
    [] n.kind = "ExprStmt" -> <<n.x>>
    [] n.kind = "CallExpr" -> <<n.fun>> \o n.args
    [] n.kind = "SelectorExpr" -> <<n.x, n.sel>>
    [] n.kind = "BinaryExpr" -> <<n.x, n.y>>
    [] OTHER -> <<>>

RECURSIVE NodeAt(_, _)
NodeAt(n, path) ==
  IF Len(path) = 0 THEN n ELSE NodeAt(Children(n)[Head(path)], Tail(path))

(***************************************************************************)
(* The visitor                                                             *)
(***************************************************************************)
\* maps method name to the interface it implements
methodImplements ==
  [m \in {"ExecContext", "QueryContext", "QueryRowContext", "NamedExecContext",
          "GetContext", "SelectContext", "NamedQueryContext", "PrepareContext",
          "PrepareNamedContext"} |-> m]

\* a Go map read: the zero value for a missing key
MapGet(m, k) == IF k \in DOMAIN m THEN m[k] ELSE EmptyText

InterfaceName(name) ==
  IF name \in DOMAIN methodImplements THEN methodImplements[name] ELSE ""

\* a bug: every method's query is taken at index 1
QueryIndexAlwaysOne(name) == 1

\* the zero-based index of the query argument chosen by Visit's switch
QueryIndex(name) ==
  CASE name \in {"ExecContext", "QueryContext", "QueryRowContext",
                 "NamedExecContext", "NamedQueryContext", "PrepareContext",
                 "PrepareNamedContext"} -> 1
    [] name \in {"GetContext", "SelectContext"} -> 2

\* a bug: the literal is unquoted before it is returned
processQueryUnquoted(f, queryArg) ==
  CASE queryArg.kind = "BasicLit" ->
         [value |-> StringVal(queryArg.value), fatal |-> FALSE, name |-> "", f |-> f]
    [] queryArg.kind = "Ident" ->
         IF queryArg.name \in f.nonUniqueNames
         THEN [value |-> EmptyText, fatal |-> TRUE, name |-> queryArg.name, f |-> f]
         ELSE [value |-> MapGet(f.packageInfo, queryArg.name), fatal |-> FALSE,
               name |-> "", f |-> f]
    [] OTHER -> [value |-> EmptyText, fatal |-> FALSE, name |-> "", f |-> f]

\* a bug: the ambiguous-name set is not consulted
processQueryNoCheck(f, queryArg) ==
  CASE queryArg.kind = "BasicLit" ->
         [value |-> queryArg.value, fatal |-> FALSE, name |-> "", f |-> f]
    [] queryArg.kind = "Ident" ->
         [value |-> MapGet(f.packageInfo, queryArg.name), fatal |-> FALSE,
          name |-> "", f |-> f]
    [] OTHER -> [value |-> EmptyText, fatal |-> FALSE, name |-> "", f |-> f]

\* a bug: the lookup of an unknown name leaves an empty entry in the table
processQueryInserting(f, queryArg) ==
  CASE queryArg.kind = "BasicLit" ->
         [value |-> queryArg.value, fatal |-> FALSE, name |-> "", f |-> f]
    [] queryArg.kind = "Ident" ->
         IF queryArg.name \in f.nonUniqueNames
         THEN [value |-> EmptyText, fatal |-> TRUE, name |-> queryArg.name, f |-> f]
         ELSE [value |-> MapGet(f.packageInfo, queryArg.name), fatal |-> FALSE,
               name |-> "",
               f |-> IF queryArg.name \in DOMAIN f.packageInfo THEN f
                     ELSE [f EXCEPT !.packageInfo = @ @@ (queryArg.name :> EmptyText)]]
    [] OTHER -> [value |-> EmptyText, fatal |-> FALSE, name |-> "", f |-> f]

\* processQuery: value is the string returned, f the finder afterwards (a map
\* read inserts nothing); fatal is log.Fatalf, which names the identifier
processQuery(f, queryArg) ==
  CASE queryArg.kind = "BasicLit" ->
         [value |-> queryArg.value, fatal |-> FALSE, name |-> "", f |-> f]
    [] queryArg.kind = "Ident" ->
         IF queryArg.name \in f.nonUniqueNames
         THEN [value |-> EmptyText, fatal |-> TRUE, name |-> queryArg.name, f |-> f]
         ELSE [value |-> MapGet(f.packageInfo, queryArg.name), fatal |-> FALSE,
               name |-> "", f |-> f]
    [] OTHER -> [value |-> EmptyText, fatal |-> FALSE, name |-> "", f |-> f]

Through(f) == [ret |-> "f", f |-> f, outcome |-> "ok", name |-> ""]

AppendQuery(f, query) ==
  [packageInfo |-> f.packageInfo, queries |-> Append(f.queries, query),
   nonUniqueNames |-> f.nonUniqueNames]

\* a bug: the visitor is handed back after a qualifying call too
VisitDescending(f, node) ==
  IF node.kind # "CallExpr" THEN Through(f)
  ELSE IF node.fun.kind # "SelectorExpr" THEN Through(f)
  ELSE IF InterfaceName(node.fun.sel.name) = "" THEN Through(f)
  ELSE IF Len(node.args) < QueryIndex(node.fun.sel.name) + 1
       THEN [ret |-> "nil", f |-> f, outcome |-> "panic", name |-> ""]
  ELSE LET r == processQuery(f, node.args[QueryIndex(node.fun.sel.name) + 1])
       IN IF r.fatal
          THEN [ret |-> "nil", f |-> r.f, outcome |-> "fatal", name |-> r.name]
          ELSE [ret |-> "f",
                f |-> IF r.value # EmptyText THEN AppendQuery(r.f, r.value) ELSE r.f,
                outcome |-> "ok", name |-> ""]

\* Visit: ret is the visitor handed back to ast.Walk ("f" or "nil"), f the finder
\* afterwards, outcome "ok", "fatal" (log.Fatalf) or "panic" (index out of range
\* on fCall.Args)
Visit(f, node) ==
  IF node.kind # "CallExpr" THEN Through(f)
  ELSE IF node.fun.kind # "SelectorExpr" THEN Through(f)
  ELSE IF InterfaceName(node.fun.sel.name) = "" THEN Through(f)
  ELSE IF Len(node.args) < QueryIndex(node.fun.sel.name) + 1
       THEN [ret |-> "nil", f |-> f, outcome |-> "panic", name |-> ""]
  ELSE LET r == processQuery(f, node.args[QueryIndex(node.fun.sel.name) + 1])
       IN IF r.fatal
          THEN [ret |-> "nil", f |-> r.f, outcome |-> "fatal", name |-> r.name]
          ELSE [ret |-> "nil",
                f |-> IF r.value # EmptyText THEN AppendQuery(r.f, r.value) ELSE r.f,
                outcome |-> "ok", name |-> ""]

(***************************************************************************)
(* The constant table builder                                              *)
(***************************************************************************)
\* a bug: a second declaration is flagged and its value replaces the first
BuildBindingOverwrite(f, b) ==
  IF ~b.isConst THEN [packageInfo |-> f.packageInfo, nonUniqueNames |-> f.nonUniqueNames]
  ELSE [packageInfo |-> (b.name :> ExactString(StringVal(b.lit))) @@ f.packageInfo,
        nonUniqueNames |-> IF b.name \in DOMAIN f.packageInfo
                           THEN f.nonUniqueNames \cup {b.name}
                           ELSE f.nonUniqueNames]

\* a bug: the table records the declaration's source text, not the exact value
BuildBindingSourceText(f, b) ==
  IF ~b.isConst THEN [packageInfo |-> f.packageInfo, nonUniqueNames |-> f.nonUniqueNames]
  ELSE IF b.name \in DOMAIN f.packageInfo
       THEN [packageInfo |-> f.packageInfo,
             nonUniqueNames |-> f.nonUniqueNames \cup {b.name}]
  ELSE [packageInfo |-> f.packageInfo @@ (b.name :> b.lit),
        nonUniqueNames |-> f.nonUniqueNames]

\* one iteration of the loop over TypesInfo.Defs: [packageInfo, nonUniqueNames]
BuildBinding(f, b) ==
  IF ~b.isConst THEN [packageInfo |-> f.packageInfo, nonUniqueNames |-> f.nonUniqueNames]
  ELSE IF b.name \in DOMAIN f.packageInfo
       THEN [packageInfo |-> f.packageInfo,
             nonUniqueNames |-> f.nonUniqueNames \cup {b.name}]
  ELSE [packageInfo |-> f.packageInfo @@ (b.name :> ExactString(StringVal(b.lit))),
        nonUniqueNames |-> f.nonUniqueNames]

(***************************************************************************)
(* The emitter                                                             *)
(***************************************************************************)
Range(s) == {s[i] : i \in DOMAIN s}

MinText(S) == CHOOSE s \in S : \A t \in S : t = s \/ TextLess(s, t)

RECURSIVE SortStrings(_)
SortStrings(S) ==
  IF S = {} THEN <<>> ELSE <<MinText(S)>> \o SortStrings(S \ {MinText(S)})

\* uniqueStrings returns a sorted slice of the unique strings
uniqueStrings(strings) == SortStrings(Range(strings))

RECURSIVE Join(_, _)
Join(elems, sep) ==
  IF Len(elems) = 0 THEN <<>>
  ELSE IF Len(elems) = 1 THEN Head(elems)
  ELSE Head(elems) \o sep \o Join(Tail(elems), sep)

\* generateCode: the generated file, as a sequence of pieces of text
generateCode(packageName, importPath, qs) ==
  IF Len(qs) = 0
  THEN <<"//go:generate prep -f ", importPath, "\n\npackage ", packageName,
         "\n\nfunc init() {\n\tprepStatements = []string{}\n}">>
  ELSE <<"//go:generate prep -f ", importPath, "\n\npackage ", packageName,
         "\n\nfunc init() {\n\tprepStatements = []string{\n\t\t">>
       \o Join(qs, <<",\n\t\t">>) \o <<",\n\t}\n}">>

(***************************************************************************)
(* Inputs: the packages the run is started on                              *)
(***************************************************************************)
ConstDef(n, tok) == [name |-> n, isConst |-> TRUE, lit |-> tok]

OtherDef(n) == [name |-> n, isConst |-> FALSE, lit |-> EmptyText]

RawA == <<"BQ", "a", "BQ">>

QuotedB == <<"DQ", "b", "DQ">>

QuotedA == <<"DQ", "a", "DQ">>

\* the definition bindings a package may hold (a constant name may be declared
\* in several scopes; a variable may carry the name of a constant of another scope)
BindingUniverse ==
  <<ConstDef("Q", QuotedB), ConstDef("Q", RawA), ConstDef("R", QuotedA), OtherDef("Q")>>

IsSorted(s) == \A i \in 1..(Len(s) - 1) : s[i] <= s[i + 1]

DefsUniverse ==
  {[i \in DOMAIN s |-> BindingUniverse[s[i]]] :
     s \in {t \in UNION {[1..k -> DOMAIN BindingUniverse] : k \in 0..MaxDefs} : IsSorted(t)}}

Ctx == Ident("ctx", "var")

ConstQ == Ident("Q", "const")

VarQ == Ident("Q", "var")

Method(recv, m, args) == CallExpr(SelectorExpr(recv, m), args)

InnerCall == Method(Ident("tx", "var"), "ExecContext", <<Ctx, ConstQ>>)

Concat == BinaryExpr(BasicLit(RawA), BasicLit(RawA))

ArgExprs == {BasicLit(RawA), BasicLit(QuotedB), ConstQ, VarQ, Concat, InnerCall}

ArgLists ==
  {<<>>, <<Ctx>>} \cup {<<Ctx, e>> : e \in ArgExprs}
    \cup {<<Ctx, d, e>> : d \in ArgExprs, e \in ArgExprs}

MethodNames == DOMAIN methodImplements \cup {"Scan"}

\* one call of every method name with every argument list
WideCalls == {Method(Ident("db", "var"), m, a) : m \in MethodNames, a \in ArgLists}

NarrowStmts ==
  { Method(Ident("db", "var"), "ExecContext", <<Ctx, ConstQ>>),
    Method(Ident("db", "var"), "QueryContext", <<Ctx, BasicLit(RawA)>>),
    Method(Ident("db", "var"), "PrepareContext", <<Ctx>>),
    Method(InnerCall, "Scan", <<VarQ>>),
    Method(Ident("db", "var"), "GetContext", <<Ctx, InnerCall, BasicLit(QuotedB)>>),
    CallExpr(Ident("ExecContext", "func"), <<Ctx, ConstQ>>) }

StmtSeqs == UNION {[1..k -> {ExprStmt(c) : c \in NarrowStmts}] : k \in 0..MaxStmts}

FilesUniverse ==
  {("a.go" :> File(<<ExprStmt(c)>>)) : c \in WideCalls}
    \cup {<<>>}
    \cup {("a.go" :> File(s)) : s \in StmtSeqs}
    \cup {("a.go" :> File(p[1])) @@ ("b.go" :> File(p[2])) :
            p \in {q \in StmtSeqs \X StmtSeqs : Len(q[1]) + Len(q[2]) <= MaxStmts}}

RECURSIVE ConstNames(_)
ConstNames(n) ==
  (IF n.kind = "Ident" /\ n.obj = "const" THEN {n.name} ELSE {})
    \cup UNION {ConstNames(Children(n)[i]) : i \in DOMAIN Children(n)}

DeclaredConsts(d) == {d[i].name : i \in {j \in DOMAIN d : d[j].isConst}}

\* a type-checked package: an identifier that denotes a constant has a declaration
WellTyped(d, fs) == \A fn \in DOMAIN fs : ConstNames(fs[fn]) \subseteq DeclaredConsts(d)

\* definitions that give every shape of table: nothing declared, Q declared
\* once (in double quotes, or raw), Q declared twice, Q also or only declared
\* as something that is no constant
CoreDefs ==
  { <<>>,
    <<ConstDef("Q", QuotedB)>>,
    <<ConstDef("Q", RawA)>>,
    <<ConstDef("Q", QuotedB), ConstDef("Q", RawA)>>,
    <<ConstDef("Q", QuotedB), OtherDef("Q")>>,
    <<OtherDef("Q")>> }

\* files the builder's packages are walked with: none, one call, two files
CoreFiles ==
  { <<>>,
    ("a.go" :> File(<<ExprStmt(Method(Ident("db", "var"), "ExecContext", <<Ctx, VarQ>>))>>)),
    ("a.go" :> File(<<ExprStmt(Method(Ident("db", "var"), "QueryContext",
                                      <<Ctx, BasicLit(RawA)>>))>>))
      @@ ("b.go" :> File(<<ExprStmt(Method(Ident("db", "var"), "GetContext",
                                           <<Ctx, VarQ, VarQ>>))>>)) }

\* the packages a run is started on: every set of definitions with the core
\* files, and every set of files with the core definitions
Packages ==
  {pkg \in (DefsUniverse \X CoreFiles) \cup (CoreDefs \X FilesUniverse) :
     WellTyped(pkg[1], pkg[2])}

(***************************************************************************)
(* State                                                                   *)
(***************************************************************************)
VARIABLES
  defs,            \* sourcePackage.TypesInfo.Defs: the definition bindings
  files,           \* astPackage.Files: file name -> syntax tree
  pendingDefs,     \* bindings the first loop has not reached yet
  pendingFiles,    \* files the second loop has not reached yet
  curFile,         \* the file ast.Walk is in
  stack,           \* ast.Walk's pending work, innermost first
  packageInfo,     \* finder.packageInfo
  nonUniqueNames,  \* finder.nonUniqueNames
  queries,         \* finder.queries
  status,          \* "running", "done", "fatal" (log.Fatalf) or "panic"
  fatalName,       \* the identifier log.Fatalf names
  output,          \* what the run handed to the generator and wrote
  visits,          \* history: the nodes Visit was called on, in order
  last             \* history: the latest step of the run

vars == <<defs, files, pendingDefs, pendingFiles, curFile, stack, packageInfo,
          nonUniqueNames, queries, status, fatalName, output, visits, last>>

Finder == [packageInfo |-> packageInfo, queries |-> queries,
           nonUniqueNames |-> nonUniqueNames]

NoOutput == [written |-> FALSE, queries |-> <<>>, code |-> <<>>]

NoStep == [step |-> "none"]

Init ==
  /\ \E pkg \in Packages : defs = pkg[1] /\ files = pkg[2]
  /\ pendingDefs = DOMAIN defs
  /\ pendingFiles = DOMAIN files
  /\ curFile = ""
  /\ stack = <<>>
  /\ packageInfo = <<>>
  /\ nonUniqueNames = {}
  /\ queries = <<>>
  /\ status = "running"
  /\ fatalName = ""
  /\ output = NoOutput
  /\ visits = <<>>
  /\ last = NoStep

(***************************************************************************)
(* Steps of main                                                           *)
(***************************************************************************)
\* one iteration of `for k, v := range sourcePackage.TypesInfo.Defs`
BuildStep ==
  /\ status = "running"
  /\ \E i \in pendingDefs :
       LET r == BuildBinding(Finder, defs[i])
       IN /\ packageInfo' = r.packageInfo
          /\ nonUniqueNames' = r.nonUniqueNames
          /\ pendingDefs' = pendingDefs \ {i}
          /\ last' = [step |-> "build", binding |-> defs[i],
                      before |-> Finder, after |-> r]
  /\ UNCHANGED <<defs, files, pendingFiles, curFile, stack, queries, status,
                 fatalName, output, visits>>

\* `for _, file := range astPackage.Files`: ast.Walk(finder, file) begins
StartFile ==
  /\ status = "running"
  /\ pendingDefs = {}
  /\ stack = <<>>
  /\ \E fn \in pendingFiles :
       /\ curFile' = fn
       /\ pendingFiles' = pendingFiles \ {fn}
       /\ stack' = <<[op |-> "visit", path |-> <<>>]>>
       /\ last' = [step |-> "file", file |-> fn]
  /\ UNCHANGED <<defs, files, pendingDefs, packageInfo, nonUniqueNames, queries,
                 status, fatalName, output, visits>>

ChildItems(path, node) ==
  [i \in DOMAIN Children(node) |-> [op |-> "visit", path |-> Append(path, i)]]

\* ast.Walk reaches a node: v.Visit(node), then its children, then v.Visit(nil)
VisitStep ==
  /\ status = "running"
  /\ stack # <<>>
  /\ Head(stack).op = "visit"
  /\ LET path == Head(stack).path
         node == NodeAt(files[curFile], path)
         r == Visit(Finder, node)
     IN /\ packageInfo' = r.f.packageInfo
        /\ nonUniqueNames' = r.f.nonUniqueNames
        /\ queries' = r.f.queries
        /\ visits' = Append(visits, [file |-> curFile, path |-> path])
        /\ last' = [step |-> "visit", file |-> curFile, path |-> path,
                    node |-> node, before |-> Finder, res |-> r]
        /\ IF r.outcome = "ok"
           THEN /\ stack' = (IF r.ret = "f"
                             THEN ChildItems(path, node) \o <<[op |-> "nil", path |-> path]>>
                             ELSE <<>>) \o Tail(stack)
                /\ UNCHANGED <<status, fatalName>>
           ELSE /\ status' = r.outcome
                /\ fatalName' = r.name
                /\ UNCHANGED stack
  /\ UNCHANGED <<defs, files, pendingDefs, pendingFiles, curFile, output>>

\* ast.Walk leaves a node: v.Visit(nil)
VisitNil ==
  /\ status = "running"
  /\ stack # <<>>
  /\ Head(stack).op = "nil"
  /\ LET r == Visit(Finder, NilNode)
     IN /\ packageInfo' = r.f.packageInfo
        /\ nonUniqueNames' = r.f.nonUniqueNames
        /\ queries' = r.f.queries
        /\ last' = [step |-> "leave", file |-> curFile, path |-> Head(stack).path,
                    node |-> NilNode, before |-> Finder, res |-> r]
  /\ stack' = Tail(stack)
  /\ UNCHANGED <<defs, files, pendingDefs, pendingFiles, curFile, status, fatalName,
                 output, visits>>

\* after the walks: uniqueStrings, generateCode, os.Create and file.Write
Emit ==
  /\ status = "running"
  /\ pendingDefs = {}
  /\ pendingFiles = {}
  /\ stack = <<>>
  /\ output' = [written |-> TRUE, queries |-> uniqueStrings(queries),
                code |-> generateCode("pkg", "example.com/pkg", uniqueStrings(queries))]
  /\ status' = "done"
  /\ last' = [step |-> "emit"]
  /\ UNCHANGED <<defs, files, pendingDefs, pendingFiles, curFile, stack, packageInfo,
                 nonUniqueNames, queries, fatalName, visits>>

Next == BuildStep \/ StartFile \/ VisitStep \/ VisitNil \/ Emit

Spec == Init /\ [][Next]_vars

(***************************************************************************)
(* Vocabulary of the properties                                            *)
(***************************************************************************)
Recognized ==
  {"ExecContext", "QueryContext", "QueryRowContext", "NamedExecContext",
   "NamedQueryContext", "PrepareContext", "PrepareNamedContext", "GetContext",
   "SelectContext"}

\* a call expression whose callee is a selector with a recognized method name
Qualifying(n) ==
  /\ n.kind = "CallExpr"
  /\ n.fun.kind = "SelectorExpr"
  /\ n.fun.sel.name \in Recognized

\* position in args (counted from one) of the query argument of a qualifying call
ArgPos(n) == IF n.fun.sel.name \in {"GetContext", "SelectContext"} THEN 3 ELSE 2

HasQueryArg(n) == Qualifying(n) /\ Len(n.args) >= ArgPos(n)

QueryArg(n) == n.args[ArgPos(n)]

\* the constant declarations of a name among the package's definitions
ConstDecls(name) == {i \in DOMAIN defs : defs[i].isConst /\ defs[i].name = name}

Ambiguous(name) == Cardinality(ConstDecls(name)) >= 2

Unique(name) == Cardinality(ConstDecls(name)) = 1

DeclLit(name) == defs[CHOOSE i \in ConstDecls(name) : TRUE].lit

AllNames == {defs[i].name : i \in DOMAIN defs} \cup {"Q", "R"}

RECURSIVE Paths(_)
Paths(n) ==
  {<<>>} \cup UNION {{<<i>> \o p : p \in Paths(Children(n)[i])} : i \in DOMAIN Children(n)}

IsProperPrefix(p, q) == Len(p) < Len(q) /\ SubSeq(q, 1, Len(p)) = p

\* the node lies inside the subtree of a qualifying call
InsideQualifying(fn, path) ==
  \E k \in 0..(Len(path) - 1) : Qualifying(NodeAt(files[fn], SubSeq(path, 1, k)))

VisitedLast == last.step = "visit"

(***************************************************************************)
(* C8: the constant table builder                                          *)
(***************************************************************************)
\* C8: once every definition binding has been processed, in whatever order, a
\* name is in nonUniqueNames exactly when at least two bindings of that name
\* denote constants, the table holds exactly the names declared as constants,
\* a name declared once carries the exact value of its declaration; a binding
\* that is no constant changes neither table nor set, and no step of the
\* builder changes the value recorded for a name that already has an entry.
C8_Builder ==
  /\ pendingDefs = {} =>
       /\ \A n \in AllNames : n \in nonUniqueNames <=> Ambiguous(n)
       /\ DOMAIN packageInfo = {n \in AllNames : ConstDecls(n) # {}}
       /\ \A n \in AllNames :
            Unique(n) => packageInfo[n] = ExactString(StringVal(DeclLit(n)))
  /\ last.step = "build" =>
       /\ \A n \in DOMAIN last.before.packageInfo :
            n \in DOMAIN packageInfo /\ packageInfo[n] = last.before.packageInfo[n]
       /\ last.before.nonUniqueNames \subseteq nonUniqueNames
       /\ ~last.binding.isConst =>
            /\ packageInfo = last.before.packageInfo
            /\ nonUniqueNames = last.before.nonUniqueNames

\* the builder has finished on a package that declares Q as a constant twice
\* with different values and once as something else; the last binding it saw
\* was a second declaration of Q
C8_Witness ==
  /\ pendingDefs = {}
  /\ Cardinality(ConstDecls("Q")) = 2
  /\ \E i \in DOMAIN defs : ~defs[i].isConst /\ defs[i].name = "Q"
  /\ \E i, j \in ConstDecls("Q") : defs[i].lit # defs[j].lit
  /\ last.step = "build"
  /\ last.binding.isConst
  /\ "Q" \in DOMAIN last.before.packageInfo
  /\ nonUniqueNames = {"Q"}

(***************************************************************************)
(* C2: a literal query argument                                            *)
(***************************************************************************)
\* C2: when Visit is called on a recognized call whose argument at the method's
\* query index is a literal token, the run goes on and the query list grows by
\* exactly one entry, the literal's source text with its quote delimiters.
C2_LiteralAppended ==
  (VisitedLast /\ HasQueryArg(last.node) /\ QueryArg(last.node).kind = "BasicLit") =>
     /\ status = "running"
     /\ queries = Append(last.before.queries, QueryArg(last.node).value)

\* Visit has just handled a recognized call whose query argument is the raw
\* literal `a`, and the list ends with that text, backticks included
C2_Witness ==
  /\ VisitedLast
  /\ HasQueryArg(last.node)
  /\ QueryArg(last.node) = BasicLit(RawA)
  /\ Len(queries) >= 1
  /\ queries[Len(queries)] = RawA

(***************************************************************************)
(* C9: what a Visit step may change                                        *)
(***************************************************************************)
\* what a visited node contributes to the list, read off the package itself
Contribution(node) ==
  IF ~HasQueryArg(node) THEN <<>>
  ELSE IF QueryArg(node).kind = "BasicLit" THEN <<QueryArg(node).value>>
  ELSE IF QueryArg(node).kind = "Ident" /\ Unique(QueryArg(node).name)
       THEN <<ExactString(StringVal(DeclLit(QueryArg(node).name)))>>
  ELSE <<>>

RECURSIVE Contributions(_)
Contributions(vs) ==
  IF Len(vs) = 0 THEN <<>>
  ELSE Contribution(NodeAt(files[Head(vs).file], Head(vs).path))
         \o Contributions(Tail(vs))

NoQualifyingCall ==
  \A fn \in DOMAIN files : \A p \in Paths(files[fn]) : ~Qualifying(NodeAt(files[fn], p))

\* C9: a Visit step (on a node or on nil) leaves the constant table and the
\* ambiguous-name set as they were and either leaves the query list as it was
\* or appends one entry at its end; on a node that is no qualifying call it
\* leaves the list as it was. The list is, at every moment, the resolved values
\* of the nodes visited so far in visiting order, and it is empty for a package
\* without qualifying calls.
C9_VisitFrame ==
  /\ last.step \in {"visit", "leave"} =>
       /\ packageInfo = last.before.packageInfo
       /\ nonUniqueNames = last.before.nonUniqueNames
       /\ \/ queries = last.before.queries
          \/ /\ Len(queries) = Len(last.before.queries) + 1
             /\ SubSeq(queries, 1, Len(last.before.queries)) = last.before.queries
       /\ ~Qualifying(last.node) => queries = last.before.queries
  /\ queries = Contributions(visits)
  /\ (queries # <<>>) => ~NoQualifyingCall

\* a Visit step appended a second entry behind the first
C9_Witness ==
  /\ VisitedLast
  /\ Len(last.before.queries) = 1
  /\ Len(queries) = 2
  /\ queries[1] = last.before.queries[1]

(***************************************************************************)
(* C1: an ambiguous constant as the query argument                         *)
(***************************************************************************)
\* some recognized call anywhere in the package has, as its query argument, an
\* identifier whose name is declared as a constant more than once
AmbiguousRef ==
  \E fn \in DOMAIN files : \E p \in Paths(files[fn]) :
    LET n == NodeAt(files[fn], p)
    IN HasQueryArg(n) /\ QueryArg(n).kind = "Ident" /\ Ambiguous(QueryArg(n).name)

\* C1 as stated: a package that holds such a call never gets output written.
C1_Original == output.written => ~AmbiguousRef

\* C1 as amended: when Visit is called on a recognized call whose query
\* argument is an identifier declared as a constant more than once, the run
\* aborts at that call with log.Fatalf naming the identifier, the list is left
\* as it was, and nothing is handed to the generator or written; a run that
\* aborted this way has written nothing.
C1_AbortOnVisit ==
  /\ (VisitedLast /\ HasQueryArg(last.node) /\ QueryArg(last.node).kind = "Ident"
        /\ Ambiguous(QueryArg(last.node).name)) =>
       /\ status = "fatal"
       /\ fatalName = QueryArg(last.node).name
       /\ queries = last.before.queries
       /\ output = NoOutput
  /\ status = "fatal" => (output = NoOutput /\ VisitedLast)

\* the run aborted on Q after an earlier call had already contributed a value
C1_Witness ==
  /\ status = "fatal"
  /\ fatalName = "Q"
  /\ Ambiguous("Q")
  /\ Len(queries) >= 1
  /\ ~output.written

(***************************************************************************)
(* C3: a uniquely declared constant as the query argument                  *)
(***************************************************************************)
WithArg(n, i, e) == [n EXCEPT !.args[i] = e]

UniqueConstArg ==
  /\ VisitedLast
  /\ HasQueryArg(last.node)
  /\ QueryArg(last.node).kind = "Ident"
  /\ QueryArg(last.node).obj = "const"
  /\ Unique(QueryArg(last.node).name)

\* C3 as stated: the entry appended for a uniquely declared constant is the
\* value the table holds, and it is the entry the same call would contribute
\* with the constant's source literal written in place of the identifier.
C3_Original ==
  UniqueConstArg =>
    /\ status = "running"
    /\ queries = Append(last.before.queries, packageInfo[QueryArg(last.node).name])
    /\ queries = Visit(last.before,
                       WithArg(last.node, ArgPos(last.node),
                               BasicLit(DeclLit(QueryArg(last.node).name)))).f.queries

\* C3 as amended: the entry appended is the value the table holds, which is the
\* double-quoted exact form of the constant's string; it denotes the same
\* string as the constant's source literal, and is the entry the literal would
\* contribute when the literal is already written in that double-quoted form.
C3_ExactValueAppended ==
  UniqueConstArg =>
    LET lit == DeclLit(QueryArg(last.node).name)
        v == ExactString(StringVal(lit))
    IN /\ status = "running"
       /\ packageInfo[QueryArg(last.node).name] = v
       /\ queries = Append(last.before.queries, v)
       /\ StringVal(v) = StringVal(lit)
       /\ lit = v =>
            queries = Visit(last.before,
                            WithArg(last.node, ArgPos(last.node), BasicLit(lit))).f.queries

\* Q is declared once, as the raw literal `a`, and a call with Q as its query
\* argument has just appended "a" in double quotes
C3_Witness ==
  /\ UniqueConstArg
  /\ QueryArg(last.node).name = "Q"
  /\ DeclLit("Q") = RawA
  /\ queries = <<QuotedA>>

(***************************************************************************)
(* C4: a runtime variable or another expression as the query argument      *)
(***************************************************************************)
\* C4 as stated: a query argument that is an identifier denoting a variable,
\* whatever its name, or an expression of another shape, appends nothing and
\* the run goes on.
C4_Original ==
  (VisitedLast /\ HasQueryArg(last.node)
     /\ \/ QueryArg(last.node).kind = "Ident" /\ QueryArg(last.node).obj = "var"
        \/ QueryArg(last.node).kind \notin {"Ident", "BasicLit"}) =>
    /\ status = "running"
    /\ queries = last.before.queries

(***************************************************************************)
(* C5: which argument is looked at                                         *)
(***************************************************************************)
OtherExprs == ArgExprs \cup {BasicLit(QuotedA), Ident("R", "const")}

\* C5: for a recognized call, the step's result (list, abort or not, name in
\* the message) is the same whatever stands at any argument position other
\* than the query position: index 2 for GetContext and SelectContext, index 1
\* for the other seven methods.
C5_OnlyQueryIndex ==
  (VisitedLast /\ Qualifying(last.node)) =>
    \A i \in DOMAIN last.node.args \ {ArgPos(last.node)} :
      \A e \in OtherExprs :
        LET r == Visit(last.before, WithArg(last.node, i, e))
        IN /\ r.f.queries = queries
           /\ r.f.packageInfo = packageInfo
           /\ (r.outcome = "ok") <=> (status = "running")
           /\ r.outcome # "ok" => (status = r.outcome /\ fatalName = r.name)

\* GetContext(ctx, Q, `a`) with Q declared twice: the run goes on and the list
\* holds the literal
C5_Witness ==
  /\ VisitedLast
  /\ Qualifying(last.node)
  /\ last.node.fun.sel.name = "GetContext"
  /\ Len(last.node.args) = 3
  /\ last.node.args[2] = ConstQ
  /\ Ambiguous("Q")
  /\ status = "running"
  /\ queries = <<RawA>>

(***************************************************************************)
(* C6: the only fatal condition                                            *)
(***************************************************************************)
\* C6 as stated: the run never ends other than by completing or by the abort
\* on an identifier of the ambiguous set, and a query argument that is neither
\* a literal nor an identifier contributes nothing.
C6_Original ==
  /\ status \in {"running", "done", "fatal"}
  /\ status = "fatal" =>
       /\ VisitedLast
       /\ HasQueryArg(last.node)
       /\ QueryArg(last.node).kind = "Ident"
       /\ QueryArg(last.node).name \in nonUniqueNames
  /\ (VisitedLast /\ HasQueryArg(last.node)
        /\ QueryArg(last.node).kind \notin {"Ident", "BasicLit"}) =>
       queries = last.before.queries

(***************************************************************************)
(* C7: traversal control                                                   *)
(***************************************************************************)
Entry(fn, p) == [file |-> fn, path |-> p]

\* C7: Visit is never called on a node inside the subtree of a qualifying call
\* and never twice on the same node; it hands back nil exactly on qualifying
\* calls; and in a run that completes, every node that lies inside no
\* qualifying call has been visited (once).
C7_TraversalControl ==
  /\ VisitedLast =>
       /\ ~InsideQualifying(last.file, last.path)
       /\ \A i \in 1..(Len(visits) - 1) : visits[i] # visits[Len(visits)]
       /\ visits[Len(visits)] = Entry(last.file, last.path)
       /\ status = "running" => (last.res.ret = "nil" <=> Qualifying(last.node))
  /\ status = "done" =>
       \A fn \in DOMAIN files : \A p \in Paths(files[fn]) :
         ~InsideQualifying(fn, p) => Entry(fn, p) \in Range(visits)

\* a completed run over a package that holds a qualifying call nested in a
\* qualifying call (not visited) and one nested in a call that is not
\* qualifying (visited, and it contributed)
C7_Witness ==
  /\ status = "done"
  /\ queries # <<>>
  /\ \E fn \in DOMAIN files : \E p \in Paths(files[fn]) :
       /\ Qualifying(NodeAt(files[fn], p))
       /\ InsideQualifying(fn, p)
       /\ Entry(fn, p) \notin Range(visits)
  /\ \E i \in DOMAIN visits :
       /\ Qualifying(NodeAt(files[visits[i].file], visits[i].path))
       /\ \E k \in 0..(Len(visits[i].path) - 1) :
            NodeAt(files[visits[i].file], SubSeq(visits[i].path, 1, k)).kind = "CallExpr"

(***************************************************************************)
(* C10: the iteration orders of the two maps                               *)
(***************************************************************************)
Perms(S) ==
  {s \in [1..Cardinality(S) -> S] : \A i, j \in DOMAIN s : i # j => s[i] # s[j]}

RECURSIVE RunDefs(_, _)
\* the loop over the definitions, taken in the order ds
RunDefs(f, ds) ==
  IF Len(ds) = 0 THEN f
  ELSE LET r == BuildBinding(f, defs[Head(ds)])
       IN RunDefs([packageInfo |-> r.packageInfo, queries |-> f.queries,
                   nonUniqueNames |-> r.nonUniqueNames], Tail(ds))

RECURSIVE Walk(_, _)
RECURSIVE WalkList(_, _)
\* ast.Walk(v, node): st is [f, outcome, name]
Walk(st, node) ==
  IF st.outcome # "ok" THEN st
  ELSE LET r == Visit(st.f, node)
       IN IF r.outcome # "ok" \/ r.ret = "nil"
          THEN [f |-> r.f, outcome |-> r.outcome, name |-> r.name]
          ELSE LET after == WalkList([f |-> r.f, outcome |-> "ok", name |-> ""],
                                     Children(node))
               IN IF after.outcome # "ok" THEN after
                  ELSE [f |-> Visit(after.f, NilNode).f, outcome |-> "ok", name |-> ""]

WalkList(st, nodes) ==
  IF Len(nodes) = 0 THEN st ELSE WalkList(Walk(st, Head(nodes)), Tail(nodes))

\* main with the definitions taken in the order ds and the files in the order fs
RunOutcome(ds, fs) ==
  LET f0 == [packageInfo |-> <<>>, queries |-> <<>>, nonUniqueNames |-> {}]
      st == WalkList([f |-> RunDefs(f0, ds), outcome |-> "ok", name |-> ""],
                     [i \in DOMAIN fs |-> files[fs[i]]])
  IN [outcome |-> IF st.outcome = "ok" THEN "done" ELSE st.outcome,
      list |-> IF st.outcome = "ok" THEN uniqueStrings(st.f.queries) ELSE <<>>]

\* C10 as stated: a run that has ended ended the way the run of the same
\* package ends under every other order of the definitions and of the files:
\* both aborted, the same way, or both completed with the same list handed to
\* the generator.
C10_Original ==
  status # "running" =>
    \A ds \in Perms(DOMAIN defs) : \A fs \in Perms(DOMAIN files) :
      /\ RunOutcome(ds, fs).outcome = status
      /\ status = "done" => RunOutcome(ds, fs).list = output.queries

=============================================================================
